---- MODULE Spec2Model ----
(***************************************************************************)
(* Upload processing pipeline of the aicon backend: the projects table,    *)
(* the ProjectService operations that write it, the Celery task            *)
(* process_uploaded_file and the upload API's processing pipeline.          *)
(*                                                                         *)
(* One project row is followed (ProjectIds); no operation of the source    *)
(* reads or writes a row other than the one whose id it is given.          *)
(* Handlers that suspend between two database operations are split at the  *)
(* suspension point; every other handler is one action.                    *)
(***************************************************************************)
EXTENDS Integers, Sequences, FiniteSets, TLC

(***************************************************************************)
(* Bounds of the model.                                                    *)
(***************************************************************************)
\* Celery task instances that can be dispatched.
MaxTasks == 1
\* API requests that can be suspended inside a handler at once.
MaxRequests == 1

TaskIds    == 1..MaxTasks
RequestIds == 1..MaxRequests
ProjectIds == {"p1"}
Users      == {"u1", "u2"}
\* the user who creates the row; the other user only calls
Owners     == {"u1"}
ObjectKeys == {"uploads/k1"}

\* Python's None, for nullable string columns and optional string arguments.
None == "None"
\* No row under a project id, and no object under a key.
NoProject == [id |-> None]
NoObject  == <<None>>
\* An optional number is a sequence: <<>> for None, <<v>> for the value v.
NoNumber  == <<>>
\* no call of the file validator was made
NoValidation == [op |-> None]
NoAnalysis == [op |-> None]
\* no script row, no extraction call made
NoMovie == [scripts |-> <<>>, created |-> FALSE, persisted |-> 0, outcome |-> None]

(***************************************************************************)
(* Enumerations of models/project.py.                                      *)
(***************************************************************************)
ProjectStatus == {"draft", "processing", "completed", "failed", "archived"}

FileProcessingStatus ==
    {"pending", "uploading", "uploaded", "processing", "completed", "failed"}

SupportedFileType == {"txt", "md", "docx", "epub"}

(***************************************************************************)
(* Texts: file contents as sequences of characters.                        *)
(***************************************************************************)
EmptyText   == <<>>
HeadingText == <<"#", " ", "T", "\n", "\n", "a", " ", "b", ".", "\n", "\n", "c", "?">>
PlainText   == <<"a", " ", "b", ".", " ", "c">>
Texts       == {EmptyText, HeadingText, PlainText}
\* the texts uploads store
UploadedTexts == {HeadingText, PlainText}

Whitespace  == {" ", "\n", "\t"}
Terminators == {".", "!", "?"}

\* str.strip() of the piece is non-empty
strip_nonempty(s) == \E i \in 1..Len(s) : s[i] \notin Whitespace

\* len(content.split()): maximal runs of non-whitespace characters
count_words(t) ==
    Cardinality({i \in 1..Len(t) :
        /\ t[i] \notin Whitespace
        /\ (i = 1 \/ t[i-1] \in Whitespace)})

\* content.split('\n\n'): left to right, non-overlapping separators
RECURSIVE split_blank_line(_, _)
split_blank_line(t, piece) ==
    IF t = <<>> THEN <<piece>>
    ELSE IF Len(t) >= 2 /\ t[1] = "\n" /\ t[2] = "\n"
         THEN <<piece>> \o split_blank_line(SubSeq(t, 3, Len(t)), <<>>)
         ELSE split_blank_line(Tail(t), Append(piece, t[1]))

\* re.split(r'[.!?]+', content); the empty pieces between adjacent
\* terminators are dropped by the strip() filter of the caller either way
RECURSIVE split_sentences(_, _)
split_sentences(t, piece) ==
    IF t = <<>> THEN <<piece>>
    ELSE IF t[1] \in Terminators
         THEN <<piece>> \o split_sentences(Tail(t), <<>>)
         ELSE split_sentences(Tail(t), Append(piece, t[1]))

\* a count that keeps the pieces that strip() empties
count_all(pieces) == Len(pieces)
count_nonempty(pieces) ==
    Cardinality({i \in 1..Len(pieces) : strip_nonempty(pieces[i])})

\* length of the run of characters of set S that starts at index i
RECURSIVE run_length(_, _, _)
run_length(t, i, S) ==
    IF i <= Len(t) /\ t[i] \in S THEN 1 + run_length(t, i + 1, S) ELSE 0

\* index of the last character of the line that holds index i
RECURSIVE end_of_line(_, _)
end_of_line(t, i) ==
    IF i < Len(t) /\ t[i+1] # "\n" THEN end_of_line(t, i + 1) ELSE i

\* re.match of ^#{1,6}\s+.+$ (MULTILINE) at index i: the index of the last
\* matched character, 0 when there is no match.  \s+ is greedy and also
\* takes newlines; it gives characters back until .+ finds a non-newline.
heading_match_end(t, i) ==
    LET h == run_length(t, i, {"#"})
        j == i + h
        w == run_length(t, j, Whitespace)
        backtrack == {m \in 1..w : j + m <= Len(t) /\ t[j+m] # "\n"}
    IN  IF /\ (i = 1 \/ t[i-1] = "\n")
           /\ h >= 1 /\ h <= 6
           /\ backtrack # {}
        THEN end_of_line(t, j + (CHOOSE m \in backtrack : \A n \in backtrack : n <= m))
        ELSE 0

\* len(re.findall(...)): non-overlapping matches, scanning left to right
RECURSIVE _count_markdown_chapters_from(_, _)
_count_markdown_chapters_from(t, i) ==
    IF i > Len(t) THEN 0
    ELSE LET e == heading_match_end(t, i)
         IN  IF e > 0 THEN 1 + _count_markdown_chapters_from(t, e + 1)
             ELSE _count_markdown_chapters_from(t, i + 1)

_count_markdown_chapters(t) == _count_markdown_chapters_from(t, 1)

_analyze_file_content(content, file_type) ==
    IF content = <<>>
    THEN [word_count |-> 0, paragraph_count |-> 0, sentence_count |-> 0,
          chapter_count |-> 0, character_count |-> 0]
    ELSE [word_count      |-> count_words(content),
          character_count |-> Len(content),
          paragraph_count |-> count_nonempty(split_blank_line(content, <<>>)),
          sentence_count  |-> count_nonempty(split_sentences(content, <<>>)),
          chapter_count   |-> IF file_type = "md"
                              THEN _count_markdown_chapters(content) ELSE 0]

(***************************************************************************)
(* State.                                                                  *)
(***************************************************************************)
VARIABLES
    projects,   \* the projects table: ProjectIds -> row, NoProject when no row
    storage,    \* the object store: ObjectKeys -> text, NoObject when no object
    tasks,      \* Celery process_uploaded_file task instances
    requests,   \* API / service calls suspended inside a handler
    validation, \* the last call of the file validator with its result
    analysis,   \* the last call of _analyze_file_content with its result
    movie       \* the movie_scripts rows with their scenes, and the last extraction call

vars == <<projects, storage, tasks, requests, validation, analysis, movie>>

\* Exception messages (str(exc)) that reach processing_error or a result
MissingStatusMsg  == "update_processing_status() missing 1 required positional argument: 'status'"
MissingUserIdMsg  == "update_project() missing 1 required positional argument: 'user_id'"
ReadErrorMsg      == "cannot read file"
DispatchErrorMsg  == "dispatch failed"
ManualErrorMsg    == "manual"
NotFoundMsg       == "project not found"
StorageErrorMsg   == "storage unavailable"
OSErrorMsg        == "cannot open file"

\* What a content fetch of the task can raise: the storage client's
\* StorageError, or an OSError of the local read
FetchErrors ==
    {[class |-> "StorageError", message |-> StorageErrorMsg],
     [class |-> "OSError",      message |-> OSErrorMsg]}

\* Values callers pass to update_project as processing_progress
ProgressInputs   == {-5, 150}
\* Direct calls of update_processing_status: (status, progress, error_message)
StatusInputs ==
    {<<"processing", <<50>>, None>>, <<"completed", <<100>>, None>>}

\* A task instance.  state: "idle" (not dispatched), "queued", "running"
\* (inside _process_file, after its first write) or "done" (returned its
\* result dict).  exc and message are those of the attempt that ended
\* last, countdown that of the last self.retry.  rerun: the row was
\* completed when the current attempt read it.
IdleTask ==
    [state |-> "idle", project_id |-> None, user_id |-> None, file_path |-> None,
     retries |-> 0, countdown |-> 0, exc |-> None, message |-> None, success |-> None,
     rerun |-> FALSE]

\* A suspended call.  rerun: the row was completed when the call read it.
IdleRequest == [op |-> None, project_id |-> None, user_id |-> None, file_type |-> None,
                rerun |-> FALSE]

\* Project(...) with the column defaults of the model
NewProject(user_id) ==
    [user_id                |-> user_id,
     status                 |-> "draft",
     file_processing_status |-> "pending",
     file_type              |-> None,
     minio_object_key       |-> None,
     total_chapters         |-> 0,
     total_paragraphs       |-> 0,
     total_sentences        |-> 0,
     word_count             |-> 0,
     processing_error       |-> None,
     processing_progress    |-> 0,
     is_deleted             |-> FALSE]

Columns == DOMAIN NewProject("u1")

Max(a, b) == IF a >= b THEN a ELSE b
Min(a, b) == IF a <= b THEN a ELSE b

(***************************************************************************)
(* Project model methods (models/project.py).                              *)
(***************************************************************************)
update_processing_progress(row, progress) ==
    [row EXCEPT !.processing_progress = Max(0, Min(100, progress))]

mark_as_failed(row, error_message) ==
    update_processing_progress(
        [row EXCEPT !.status = "failed",
                    !.file_processing_status = "failed",
                    !.processing_error = error_message],
        0)

mark_as_completed(row) ==
    [update_processing_progress(
        [row EXCEPT !.status = "completed",
                    !.file_processing_status = "completed"],
        100)
     EXCEPT !.processing_error = None]

\* the file_processing_status values can_be_processed accepts
CanBeProcessedStatuses == {"uploaded", "failed"}

(***************************************************************************)
(* ProjectService helpers (services/project.py).                           *)
(***************************************************************************)
\* the lookup without the owner filter
get_project_by_id_any_owner(project_id, user_id) ==
    LET row == projects[project_id]
    IN  IF row # NoProject /\ ~row.is_deleted THEN row ELSE NoProject

\* get_project_by_id: the row, filtered on is_deleted and, when a user id
\* is given (`if user_id:`), on the owner; NoProject when the query yields
\* nothing
get_project_by_id(project_id, user_id) ==
    LET row == projects[project_id]
    IN  IF /\ row # NoProject
           /\ ~row.is_deleted
           /\ (user_id \notin {None, ""} => row.user_id = user_id)
        THEN row ELSE NoProject

\* the filter every listing query applies: the user's rows that are not
\* soft-deleted
active_projects(user_id) ==
    {p \in ProjectIds : /\ projects[p] # NoProject
                        /\ projects[p].user_id = user_id
                        /\ projects[p].is_deleted = FALSE}

\* the listing without the is_deleted filter
get_user_projects_with_deleted(user_id, status) ==
    {p \in ProjectIds : /\ projects[p] # NoProject
                        /\ projects[p].user_id = user_id
                        /\ (status # None => projects[p].status = status)}

\* get_user_projects: the ids of the rows listed (one page holds them all)
get_user_projects(user_id, status) ==
    {p \in active_projects(user_id) : status # None => projects[p].status = status}

\* the filters callers pass to search_projects
SearchFilters == {<<>>, [status |-> "draft"], [file_type |-> "md"]}

\* search_projects: the ids of the rows found; titles are not modelled, the
\* search term matches every title
search_projects(user_id, filters) ==
    {p \in active_projects(user_id) :
        /\ ("status" \in DOMAIN filters => projects[p].status = filters["status"])
        /\ ("file_type" \in DOMAIN filters => projects[p].file_type = filters["file_type"])}

\* get_project_statistics: total and per-status counts
get_project_statistics(user_id) ==
    [total_projects |-> Cardinality(active_projects(user_id)),
     status_distribution |->
        [st \in {projects[p].status : p \in active_projects(user_id)} |->
            Cardinality({p \in active_projects(user_id) : projects[p].status = st})]]

\* for field, value in updates.items(): setattr(project, field, value)
set_fields(row, updates) ==
    [f \in Columns |-> IF f \in DOMAIN updates THEN updates[f] ELSE row[f]]

\* the row update_processing_status commits
processing_status_row(row, status, progress, error_message) ==
    LET r1 == [row EXCEPT !.file_processing_status = status]
        r2 == IF progress # NoNumber THEN update_processing_progress(r1, progress[1])
              ELSE r1
    IN  IF error_message \notin {None, ""}
        THEN [r2 EXCEPT !.processing_error = error_message]
        ELSE r2

\* the table after update_processing_status(project_id, status, ...):
\* db.get(Project, project_id) applies no owner and no is_deleted filter;
\* a missing row makes the call return False and write nothing
write_processing_status(project_id, status, progress, error_message) ==
    IF projects[project_id] = NoProject THEN projects
    ELSE [projects EXCEPT ![project_id] =
            processing_status_row(@, status, progress, error_message)]

\* start_file_processing goes on to dispatch for this row
start_file_processing_accepts(row) == row.file_processing_status = "uploaded"

Init ==
    /\ projects = [p \in ProjectIds |-> NoProject]
    /\ storage  = [k \in ObjectKeys |-> NoObject]
    /\ tasks    = [t \in TaskIds |-> IdleTask]
    /\ requests = [r \in RequestIds |-> IdleRequest]
    /\ validation = NoValidation
    /\ analysis = NoAnalysis
    /\ movie = NoMovie

(***************************************************************************)
(* Row creation.                                                           *)
(***************************************************************************)
\* Project.create_project (the model's classmethod, awaited): add, commit
Project_create_project(project_id, user_id) ==
    /\ projects[project_id] = NoProject
    /\ projects' = [projects EXCEPT ![project_id] = NewProject(user_id)]
    /\ UNCHANGED <<storage, tasks, requests, validation, analysis, movie>>

\* ProjectService.create_project: Project.create_project(...) is called
\* without await, so `project` is a coroutine object that never runs.
\* With file_info or storage_info the attribute assignment raises
\* AttributeError, without them db_session.refresh(project) raises; either
\* way the except branch rolls back and raises ProjectServiceError, and an
\* unknown user raises it as well.  No row is written.
create_project(user_id, file_info, storage_info) ==
    UNCHANGED <<projects, storage, tasks, requests, validation, analysis, movie>>

\* POST /upload: the object is stored, then create_project raises and the
\* handler answers 500; auto-processing is never reached.
upload_file(user_id, content, auto_process) ==
    /\ \E k \in ObjectKeys : storage' = [storage EXCEPT ![k] = content]
    /\ UNCHANGED <<projects, tasks, requests, validation, analysis, movie>>

(***************************************************************************)
(* Field writers.                                                          *)
(***************************************************************************)
\* The updates callers pass to update_project: the file and storage fields
\* of an upload, and a progress
FileInfoUpdates ==
    {[file_type |-> "md", minio_object_key |-> k, file_processing_status |-> "uploaded"] :
        k \in ObjectKeys}
ProgressUpdates == {[processing_progress |-> v] : v \in ProgressInputs}
UpdateInputs == FileInfoUpdates \cup ProgressUpdates

\* a missing or foreign row raises ProjectServiceError and writes nothing
update_project(project_id, user_id, updates) ==
    LET row == get_project_by_id(project_id, user_id)
    IN  /\ projects' = IF row = NoProject THEN projects
                       ELSE [projects EXCEPT ![project_id] = set_fields(row, updates)]
        /\ UNCHANGED <<storage, tasks, requests, validation, analysis, movie>>

update_processing_status(project_id, status, progress, error_message) ==
    /\ projects' = write_processing_status(project_id, status, progress, error_message)
    /\ UNCHANGED <<storage, tasks, requests, validation, analysis, movie>>

\* project.mark_as_failed(msg) / project.mark_as_completed(), committed
MarkAsFailed(project_id, error_message) ==
    /\ projects[project_id] # NoProject
    /\ projects' = [projects EXCEPT ![project_id] = mark_as_failed(@, error_message)]
    /\ UNCHANGED <<storage, tasks, requests, validation, analysis, movie>>

MarkAsCompleted(project_id) ==
    /\ projects[project_id] # NoProject
    /\ projects' = [projects EXCEPT ![project_id] = mark_as_completed(@)]
    /\ UNCHANGED <<storage, tasks, requests, validation, analysis, movie>>

(***************************************************************************)
(* Deletion (services/project.py).                                         *)
(***************************************************************************)
\* delete_project: a missing, foreign or already soft-deleted row raises
\* ProjectServiceError.  A permanent delete removes the object first when
\* the service was built with a storage client, then the row.
delete_project(project_id, user_id, permanent, storage_client) ==
    LET row == get_project_by_id(project_id, user_id)
    IN  IF row = NoProject
        THEN UNCHANGED <<projects, storage, tasks, requests, validation, analysis, movie>>
        ELSE IF permanent
        THEN /\ storage' = IF storage_client /\ row.minio_object_key # None
                           THEN [storage EXCEPT ![row.minio_object_key] = NoObject]
                           ELSE storage
             /\ projects' = [projects EXCEPT ![project_id] = NoProject]
             /\ UNCHANGED <<tasks, requests, validation, analysis, movie>>
        ELSE /\ projects' = [projects EXCEPT ![project_id].is_deleted = TRUE]
             /\ UNCHANGED <<storage, tasks, requests, validation, analysis, movie>>

\* restore_project: only the owner's soft-deleted row is restored
restore_project(project_id, user_id) ==
    LET row == projects[project_id]
    IN  IF row # NoProject /\ row.user_id = user_id /\ row.is_deleted
        THEN /\ projects' = [projects EXCEPT ![project_id].is_deleted = FALSE]
             /\ UNCHANGED <<storage, tasks, requests, validation, analysis, movie>>
        ELSE UNCHANGED <<projects, storage, tasks, requests, validation, analysis, movie>>

(***************************************************************************)
(* Slots for suspended calls and task instances.                           *)
(***************************************************************************)
FreeTasks    == {t \in TaskIds : tasks[t].state = "idle"}
FreeRequests == {r \in RequestIds : requests[r] = IdleRequest}
Lowest(S)    == CHOOSE x \in S : \A y \in S : x <= y

(***************************************************************************)
(* The Celery task process_uploaded_file (tasks/file_processing.py).       *)
(***************************************************************************)
\* the retry limit of the task's except branch
MaxRetries == 3
RetryableErrors == {"FileProcessingError", "StorageError"}

\* the retry test with the limit itself admitted
should_retry_at_limit(exc, retries) == exc \in RetryableErrors /\ retries <= MaxRetries

\* isinstance(exc, (FileProcessingError, StorageError)) and retries < 3
should_retry(exc, retries) == exc \in RetryableErrors /\ retries < MaxRetries

\* countdown=60 * (self.request.retries + 1)
retry_countdown(retries) == 60 * (retries + 1)

\* process_uploaded_file.delay(project_id, user_id, file_path)
delay(project_id, user_id, file_path) ==
    [tasks EXCEPT ![Lowest(FreeTasks)] =
        [IdleTask EXCEPT !.state = "queued", !.project_id = project_id,
                         !.user_id = user_id, !.file_path = file_path]]

\* The except branch of the task for exception exc.  _update_error_status
\* names ProjectService, which is bound only inside _process_file and
\* never at module level: it raises NameError, which the inner try
\* swallows, so the row is not written.  Then the task re-schedules itself
\* (self.retry, same task id) or returns {'success': False, 'error': ...}.
task_failed(t, exc, message) ==
    IF should_retry(exc, tasks[t].retries)
    THEN [tasks EXCEPT ![t].state = "queued",
                       ![t].retries = @ + 1,
                       ![t].countdown = retry_countdown(tasks[t].retries),
                       ![t].exc = exc,
                       ![t].message = message]
    ELSE [tasks EXCEPT ![t].state = "done",
                       ![t].exc = exc,
                       ![t].message = message,
                       ![t].success = "False"]

\* _process_file up to its first await on the table: get_project_by_id,
\* then update_processing_status(PROCESSING, progress=10.0)
TaskBegin(t) ==
    /\ tasks[t].state = "queued"
    /\ IF get_project_by_id(tasks[t].project_id, tasks[t].user_id) = NoProject
       THEN /\ tasks' = task_failed(t, "ValueError", NotFoundMsg)
            /\ UNCHANGED projects
       ELSE /\ projects' = write_processing_status(tasks[t].project_id, "processing",
                                                   <<10>>, None)
            /\ tasks' = [tasks EXCEPT
                    ![t].state = "running",
                    ![t].rerun = (projects[tasks[t].project_id].file_processing_status
                                  = "completed")]
    /\ UNCHANGED <<storage, requests, validation, analysis, movie>>

\* _get_file_content can return: file_path names a local file, or the
\* row's object is in the store
content_available(project_id, file_path) ==
    \/ file_path # None
    \/ /\ projects[project_id] # NoProject
       /\ projects[project_id].minio_object_key # None
       /\ storage[projects[project_id].minio_object_key] # NoObject

\* _get_file_content raises
TaskFetchFails(t, exc) ==
    /\ tasks[t].state = "running"
    /\ tasks' = task_failed(t, exc.class, exc.message)
    /\ UNCHANGED <<projects, storage, requests, validation, analysis, movie>>

\* _get_file_content returns; the next statement calls
\* update_processing_status(project_id=..., progress=50.0, task_id=...)
\* without the required argument `status`: TypeError, before any write.
\* Analysis, update_project and the transition to completed are not reached.
TaskFetchReturns(t) ==
    /\ tasks[t].state = "running"
    /\ content_available(tasks[t].project_id, tasks[t].file_path)
    /\ tasks' = task_failed(t, "TypeError", MissingStatusMsg)
    /\ UNCHANGED <<projects, storage, requests, validation, analysis, movie>>

(***************************************************************************)
(* ProjectService.start_file_processing (services/project.py).             *)
(***************************************************************************)
\* get_project_by_id, the status check and process_uploaded_file.delay.
\* A missing row and a row in another status return False.
start_file_processing(project_id, user_id, file_path, delay_raises) ==
    LET row == get_project_by_id(project_id, user_id)
    IN  IF row = NoProject \/ ~start_file_processing_accepts(row)
        THEN UNCHANGED <<projects, storage, tasks, requests, validation, analysis, movie>>
        ELSE IF delay_raises
        THEN \* except branch: update_processing_status(FAILED, error_message=...)
             /\ projects' = write_processing_status(project_id, "failed", NoNumber,
                                                    DispatchErrorMsg)
             /\ UNCHANGED <<storage, tasks, requests, validation, analysis, movie>>
        ELSE /\ FreeTasks # {}
             /\ FreeRequests # {}
             /\ tasks' = delay(project_id, user_id, file_path)
             /\ requests' = [requests EXCEPT ![Lowest(FreeRequests)] =
                                [op |-> "start_file_processing", project_id |-> project_id,
                                 user_id |-> user_id, file_type |-> None,
                                 rerun |-> FALSE]]
             /\ UNCHANGED <<projects, storage, validation, analysis, movie>>

\* after the dispatch: update_processing_status(PROCESSING, progress=0.0,
\* task_id=task.id); Project declares no task_id column, so that extra
\* field is skipped by hasattr.  The call then returns True.
StartFileProcessingUpdate(r) ==
    /\ requests[r].op = "start_file_processing"
    /\ projects' = write_processing_status(requests[r].project_id, "processing",
                                           <<0>>, None)
    /\ requests' = [requests EXCEPT ![r] = IdleRequest]
    /\ UNCHANGED <<storage, tasks, validation, analysis, movie>>

(***************************************************************************)
(* POST /process/{project_id} and the upload API's process_uploaded_file   *)
(* (api/v1/upload.py).                                                     *)
(***************************************************************************)
\* the endpoint reaches the pipeline: the row is the caller's, has an
\* object key and a file type, and the download returns
process_project_file_proceeds(row, download_raises) ==
    /\ row # NoProject
    /\ row.minio_object_key # None
    /\ ~download_raises
    /\ storage[row.minio_object_key] # NoObject
    /\ row.file_type # None

\* process_project_file up to the pipeline's first write; the other
\* outcomes answer 404, 400 or 500 and write nothing
process_project_file(project_id, user_id, download_raises) ==
    LET row == get_project_by_id(project_id, user_id)
    IN  IF ~process_project_file_proceeds(row, download_raises)
        THEN UNCHANGED <<projects, storage, tasks, requests, validation, analysis, movie>>
        ELSE \* process_uploaded_file: update_processing_status(PROCESSING, 10.0)
             /\ FreeRequests # {}
             /\ projects' = write_processing_status(project_id, "processing", <<10>>, None)
             /\ requests' = [requests EXCEPT ![Lowest(FreeRequests)] =
                                [op |-> "process_project_file", project_id |-> project_id,
                                 user_id |-> user_id, file_type |-> row.file_type,
                                 rerun |-> (row.file_processing_status = "completed")]]
             /\ UNCHANGED <<storage, tasks, validation, analysis, movie>>

\* The rest of the upload API's process_uploaded_file.  The handler reads
\* the temporary file (it may raise); when the read returns, the counts are
\* computed and update_project(project_id, **updates) is called without the
\* required argument `user_id`: TypeError, before any write.  Either
\* exception reaches the except branch, which calls
\* update_processing_status(FAILED, error_message=str(e)); the endpoint
\* then answers 200.
ProcessUploadedFileFinish(r, read_raises) ==
    /\ requests[r].op = "process_project_file"
    /\ projects' = write_processing_status(
                      requests[r].project_id, "failed", NoNumber,
                      IF read_raises THEN ReadErrorMsg ELSE MissingUserIdMsg)
    /\ requests' = [requests EXCEPT ![r] = IdleRequest]
    /\ UNCHANGED <<storage, tasks, validation, analysis, movie>>

(***************************************************************************)
(* Specification.                                                          *)
(***************************************************************************)
Next ==
    \/ \E p \in ProjectIds, u \in Owners : Project_create_project(p, u)
    \/ \E u \in Users, fi \in {None, "file_info"}, si \in {None, "storage_info"} :
          create_project(u, fi, si)
    \/ \E u \in Users, c \in UploadedTexts, ap \in BOOLEAN : upload_file(u, c, ap)
    \/ \E p \in ProjectIds, u \in Users, up \in UpdateInputs : update_project(p, u, up)
    \/ \E p \in ProjectIds, call \in StatusInputs :
          update_processing_status(p, call[1], call[2], call[3])
    \/ \E p \in ProjectIds : MarkAsFailed(p, ManualErrorMsg)
    \/ \E p \in ProjectIds : MarkAsCompleted(p)
    \/ \E p \in ProjectIds, u \in Users, pm \in BOOLEAN, sc \in BOOLEAN :
          delete_project(p, u, pm, sc)
    \/ \E p \in ProjectIds, u \in Users : restore_project(p, u)
    \/ \E p \in ProjectIds, u \in Users, fp \in {None, "/tmp/upload"}, dr \in BOOLEAN :
          start_file_processing(p, u, fp, dr)
    \/ \E r \in RequestIds : StartFileProcessingUpdate(r)
    \/ \E p \in ProjectIds, u \in Users, dr \in BOOLEAN : process_project_file(p, u, dr)
    \/ \E r \in RequestIds, rr \in BOOLEAN : ProcessUploadedFileFinish(r, rr)
    \/ \E t \in TaskIds : TaskBegin(t)
    \/ \E t \in TaskIds, exc \in FetchErrors : TaskFetchFails(t, exc)
    \/ \E t \in TaskIds : TaskFetchReturns(t)

Spec == Init /\ [][Next]_vars

\* The operations that create, dispatch and run a task, with those that
\* decide what a task finds: the row, its file and its object.
NextTask ==
    \/ \E p \in ProjectIds, u \in Owners : Project_create_project(p, u)
    \/ \E u \in Users, c \in UploadedTexts, ap \in BOOLEAN : upload_file(u, c, ap)
    \/ \E p \in ProjectIds, u \in Users, up \in FileInfoUpdates : update_project(p, u, up)
    \/ \E p \in ProjectIds, u \in Users, pm \in BOOLEAN, sc \in BOOLEAN :
          delete_project(p, u, pm, sc)
    \/ \E p \in ProjectIds, u \in Users : restore_project(p, u)
    \/ \E p \in ProjectIds, u \in Users, fp \in {None, "/tmp/upload"}, dr \in BOOLEAN :
          start_file_processing(p, u, fp, dr)
    \/ \E r \in RequestIds : StartFileProcessingUpdate(r)
    \/ \E t \in TaskIds : TaskBegin(t)
    \/ \E t \in TaskIds, exc \in FetchErrors : TaskFetchFails(t, exc)
    \/ \E t \in TaskIds : TaskFetchReturns(t)

SpecTask == Init /\ [][NextTask]_vars

\* The operations of ProjectService on rows and objects, called by any
\* user on rows of any owner.
NextService ==
    \/ \E p \in ProjectIds, u \in Users : Project_create_project(p, u)
    \/ \E u \in Users, fi \in {None, "file_info"}, si \in {None, "storage_info"} :
          create_project(u, fi, si)
    \/ \E u \in Users, c \in UploadedTexts, ap \in BOOLEAN : upload_file(u, c, ap)
    \/ \E p \in ProjectIds, u \in Users, up \in UpdateInputs : update_project(p, u, up)
    \/ \E p \in ProjectIds, call \in StatusInputs :
          update_processing_status(p, call[1], call[2], call[3])
    \/ \E p \in ProjectIds, u \in Users, pm \in BOOLEAN, sc \in BOOLEAN :
          delete_project(p, u, pm, sc)
    \/ \E p \in ProjectIds, u \in Users : restore_project(p, u)

SpecService == Init /\ [][NextService]_vars


(***************************************************************************)
(* FileValidator (tasks/validators.py).  A file name is the sequence of    *)
(* its characters.  A content is described by what the validator reads of  *)
(* it: its length, its first bytes, the MIME type libmagic sniffs (or that *)
(* the sniff raises), how it decodes, and its ZIP directory.               *)
(***************************************************************************)
\* iteration order of the SUPPORTED_TYPES dict
TypeOrder == <<"txt", "md", "docx", "epub">>

DocxMime == "application/vnd.openxmlformats-officedocument.wordprocessingml.document"
EpubMime == "application/epub+zip"
ZipSignature == <<"P", "K", "03", "04">>

SUPPORTED_TYPES ==
    [txt  |-> [mime_types |-> {"text/plain"},
               extensions |-> {<<".", "t", "x", "t">>},
               max_size   |-> 50 * 1024 * 1024,
               signatures |-> {<<>>}],
     md   |-> [mime_types |-> {"text/markdown", "text/plain"},
               extensions |-> {<<".", "m", "d">>, <<".", "m", "a", "r", "k", "d", "o", "w", "n">>},
               max_size   |-> 50 * 1024 * 1024,
               signatures |-> {<<"#">>, <<"*">>, <<"-">>}],
     docx |-> [mime_types |-> {DocxMime},
               extensions |-> {<<".", "d", "o", "c", "x">>},
               max_size   |-> 100 * 1024 * 1024,
               signatures |-> {ZipSignature}],
     epub |-> [mime_types |-> {EpubMime},
               extensions |-> {<<".", "e", "p", "u", "b">>},
               max_size   |-> 200 * 1024 * 1024,
               signatures |-> {ZipSignature}]]

DANGEROUS_EXTENSIONS ==
    {<<".", "e", "x", "e">>, <<".", "b", "a", "t">>, <<".", "c", "m", "d">>,
     <<".", "c", "o", "m">>, <<".", "p", "i", "f">>, <<".", "s", "c", "r">>,
     <<".", "v", "b", "s">>, <<".", "j", "s">>, <<".", "j", "a", "r">>,
     <<".", "a", "p", "p">>, <<".", "d", "e", "b">>, <<".", "p", "k", "g">>,
     <<".", "d", "m", "g">>, <<".", "r", "p", "m">>, <<".", "m", "s", "i">>,
     <<".", "d", "l", "l">>, <<".", "s", "o">>, <<".", "d", "y", "l", "i", "b">>}

DANGEROUS_MIME_TYPES ==
    {"application/x-executable", "application/x-msdownload",
     "application/x-msdos-program", "application/x-shellscript",
     "application/javascript", "application/x-java-archive"}

\* illegal_chars and reserved_names of _is_valid_filename
IllegalChars == {"<", ">", ":", "\"", "|", "?", "*", "\\x00"}
ReservedNames ==
    {<<"C", "O", "N">>, <<"P", "R", "N">>, <<"A", "U", "X">>, <<"N", "U", "L">>,
     <<"C", "O", "M", "1">>, <<"C", "O", "M", "2">>, <<"C", "O", "M", "3">>, <<"C", "O", "M", "4">>,
     <<"C", "O", "M", "5">>, <<"C", "O", "M", "6">>, <<"C", "O", "M", "7">>, <<"C", "O", "M", "8">>,
     <<"C", "O", "M", "9">>, <<"L", "P", "T", "1">>, <<"L", "P", "T", "2">>, <<"L", "P", "T", "3">>,
     <<"L", "P", "T", "4">>, <<"L", "P", "T", "5">>, <<"L", "P", "T", "6">>, <<"L", "P", "T", "7">>,
     <<"L", "P", "T", "8">>, <<"L", "P", "T", "9">>}

\* str.lower() and str.upper(), letter by letter
LowerCase ==
    [A |-> "a", B |-> "b", C |-> "c", D |-> "d", E |-> "e", F |-> "f", G |-> "g", H |-> "h", I |-> "i", J |-> "j", K |-> "k", L |-> "l", M |-> "m",
     N |-> "n", O |-> "o", P |-> "p", Q |-> "q", R |-> "r", S |-> "s", T |-> "t", U |-> "u", V |-> "v", W |-> "w", X |-> "x", Y |-> "y", Z |-> "z"]
UpperCase ==
    [a |-> "A", b |-> "B", c |-> "C", d |-> "D", e |-> "E", f |-> "F", g |-> "G", h |-> "H", i |-> "I", j |-> "J", k |-> "K", l |-> "L", m |-> "M",
     n |-> "N", o |-> "O", p |-> "P", q |-> "Q", r |-> "R", s |-> "S", t |-> "T", u |-> "U", v |-> "V", w |-> "W", x |-> "X", y |-> "Y", z |-> "Z"]
lower(s) == [i \in 1..Len(s) |-> IF s[i] \in DOMAIN LowerCase THEN LowerCase[s[i]] ELSE s[i]]
upper(s) == [i \in 1..Len(s) |-> IF s[i] \in DOMAIN UpperCase THEN UpperCase[s[i]] ELSE s[i]]

\* name.rfind('.'): the last index of a dot, 0 when there is none
rfind_dot(name) ==
    LET dots == {i \in 1..Len(name) : name[i] = "."}
    IN  IF dots = {} THEN 0 ELSE CHOOSE i \in dots : \A j \in dots : j <= i

\* Path(filename).suffix, for a name without directory part: the text from
\* the last dot on, unless that dot is the first or the last character
Path_suffix(filename) ==
    LET i == rfind_dot(filename)
    IN  IF 1 < i /\ i < Len(filename) THEN SubSeq(filename, i, Len(filename)) ELSE <<>>

\* Path(filename).stem: the name without its suffix
Path_stem(filename) ==
    LET i == rfind_dot(filename)
    IN  IF 1 < i /\ i < Len(filename) THEN SubSeq(filename, 1, i - 1) ELSE filename

\* a call without a file name
NoFilename == <<None>>
\* a name of 256 characters
LongFilename == [i \in 1..256 |-> IF i = 253 THEN "." ELSE "a"]

Filenames ==
    {<<"d", "o", "c", ".", "t", "x", "t">>, <<"d", "o", "c", ".", "m", "d">>,
     <<"d", "o", "c", ".", "M", "D">>, <<"d", "o", "c", ".", "m", "a", "r", "k", "d", "o", "w", "n">>,
     <<"d", "o", "c", ".", "d", "o", "c", "x">>, <<"d", "o", "c", ".", "e", "p", "u", "b">>,
     <<"d", "o", "c", ".", "e", "x", "e">>, <<"d", "o", "c", ".", "E", "X", "E">>,
     <<"a", ".", "t", "a", "r", ".", "j", "s">>, <<"d", "o", "c", ".", "x", "y", "z">>,
     <<"d", "o", "c">>, <<".", "e", "x", "e">>,
     <<"d", "o", "c", ".", "e", "x", "e", ".">>, <<"c", "o", "n", ".", "t", "x", "t">>,
     <<"a", "?", "b", ".", "m", "d">>, <<".", "m", "d">>,
     LongFilename, NoFilename}

\* ZIP directories: no archive, a DOCX, an EPUB, an EPUB whose mimetype
\* entry holds another text, an archive with a mimetype entry only, an
\* archive with a [Content_Types].xml entry only
NotZip == [is_zip |-> FALSE, entries |-> {}, mimetype |-> None]
ZipInputs ==
    {NotZip,
     [is_zip |-> TRUE, entries |-> {"[Content_Types].xml", "word/document.xml"},
      mimetype |-> None],
     [is_zip |-> TRUE, entries |-> {"mimetype", "META-INF/container.xml"},
      mimetype |-> EpubMime],
     [is_zip |-> TRUE, entries |-> {"mimetype", "META-INF/container.xml"},
      mimetype |-> "text/plain"],
     [is_zip |-> TRUE, entries |-> {"mimetype"}, mimetype |-> EpubMime],
     [is_zip |-> TRUE, entries |-> {"[Content_Types].xml"}, mimetype |-> None]}

\* len(file_content): a few bytes, and one byte more than each max_size
SizeInputs ==
    {10, 50 * 1024 * 1024 + 1, 100 * 1024 * 1024 + 1, 200 * 1024 * 1024 + 1}
\* file_content[:1024], as far as a signature reads it
HeaderInputs == {<<"#", " ">>, ZipSignature, <<"M", "Z">>}
\* magic_mime.from_buffer(file_content); "raises" when libmagic fails
MimeInputs ==
    {"text/plain", "text/markdown", DocxMime, EpubMime,
     "application/x-msdownload", "application/octet-stream", "raises"}
\* how the bytes decode: UTF-8, UTF-8 with a NUL character, GBK only, GBK
\* only with a NUL character, neither
DecodeInputs == {"utf-8", "utf-8-nul", "gbk", "gbk-nul", "none"}

EmptyContent ==
    [size |-> 0, header |-> <<>>, mime |-> "application/x-empty",
     decodes |-> "utf-8", zip |-> NotZip]

Contents ==
    {EmptyContent} \cup
    [size : SizeInputs, header : HeaderInputs, mime : MimeInputs,
     decodes : DecodeInputs, zip : ZipInputs]

\* the contents that differ in what the type detection reads
DetectionContents == {c \in Contents : c.decodes = "utf-8" /\ c.zip = NotZip}

ExpectedTypes == {None} \cup SupportedFileType

\* ValidationResult(...), with the defaults of __post_init__.  An error
\* message is <<kind, detail>>, NoError when None; metadata is the set of
\* its keys.
NoError == <<>>
ValidationResult(is_valid, file_type, error_message, warnings, metadata) ==
    [is_valid |-> is_valid, file_type |-> file_type, error_message |-> error_message,
     warnings |-> warnings, metadata |-> metadata]
\* an invalid result built without its error_message
Invalid_without_message(file_type, error_message) ==
    ValidationResult(FALSE, file_type, NoError, <<>>, {})
Invalid(file_type, error_message) ==
    ValidationResult(FALSE, file_type, error_message, <<>>, {})

\* an exception leaving a method
Raised(exc) == [raised |-> exc]
HasRaised(result) == "raised" \in DOMAIN result

\* a filename check that compares the stem as it is written
_is_valid_filename_case_sensitive(filename) ==
    IF \E i \in 1..Len(filename) : filename[i] \in IllegalChars THEN FALSE
    ELSE IF Len(filename) > 255 THEN FALSE
    ELSE IF Path_stem(filename) \in ReservedNames THEN FALSE
    ELSE TRUE
\* _is_valid_filename; `char in filename` raises TypeError for None
_is_valid_filename(filename) ==
    IF \E i \in 1..Len(filename) : filename[i] \in IllegalChars THEN FALSE
    ELSE IF Len(filename) > 255 THEN FALSE
    ELSE IF upper(Path_stem(filename)) \in ReservedNames THEN FALSE
    ELSE TRUE

_basic_uploaded_file_check(file_content, filename) ==
    IF file_content.size = 0 THEN Invalid(None, <<"empty_content", None>>)
    ELSE IF filename = NoFilename THEN Raised("TypeError")
    ELSE IF ~_is_valid_filename(filename) THEN Invalid(None, <<"illegal_filename", None>>)
    ELSE ValidationResult(TRUE, None, NoError, <<>>,
                          {"file_size", "filename", "file_extension"})

\* the security check that compares the suffix as it is written
_security_check_content_case_sensitive(file_content, filename) ==
    LET file_ext == Path_suffix(filename)
    IN  IF file_ext \in DANGEROUS_EXTENSIONS
        THEN Invalid(None, <<"dangerous_type", file_ext>>)
        ELSE IF file_content.mime # "raises" /\ file_content.mime \in DANGEROUS_MIME_TYPES
        THEN Invalid(None, <<"dangerous_type", file_content.mime>>)
        ELSE ValidationResult(TRUE, None, NoError, <<>>, {})

\* _security_check_content: a failing sniff is logged and passes
_security_check_content(file_content, filename) ==
    LET file_ext == lower(Path_suffix(filename))
    IN  IF file_ext \in DANGEROUS_EXTENSIONS
        THEN Invalid(None, <<"dangerous_type", file_ext>>)
        ELSE IF file_content.mime # "raises" /\ file_content.mime \in DANGEROUS_MIME_TYPES
        THEN Invalid(None, <<"dangerous_type", file_content.mime>>)
        ELSE ValidationResult(TRUE, None, NoError, <<>>, {})

\* header.startswith(signature)
startswith(header, signature) ==
    /\ Len(signature) <= Len(header)
    /\ SubSeq(header, 1, Len(signature)) = signature

\* a loop that puts its matches ahead of the types detected before
append_types_in_front(detected, matching) ==
    LET Keep(file_type) ==
            /\ file_type \in matching
            /\ ~\E i \in 1..Len(detected) : detected[i] = file_type
    IN  SelectSeq(TypeOrder, Keep) \o detected
\* one detection loop over SUPPORTED_TYPES: the matching types that are not
\* in detected yet, appended in the order of the dict
append_types(detected, matching) ==
    LET Keep(file_type) ==
            /\ file_type \in matching
            /\ ~\E i \in 1..Len(detected) : detected[i] = file_type
    IN  detected \o SelectSeq(TypeOrder, Keep)

\* a detection that asks the sniffed MIME type before the extension
detected_types_mime_first(file_content, filename) ==
    LET file_ext == lower(Path_suffix(filename))
        by_extension == {ft \in SupportedFileType :
                            file_ext \in SUPPORTED_TYPES[ft].extensions}
        by_mime == {ft \in SupportedFileType :
                       /\ file_content.mime # "raises"
                       /\ file_content.mime \in SUPPORTED_TYPES[ft].mime_types}
        by_signature == {ft \in SupportedFileType :
                            \E sig \in SUPPORTED_TYPES[ft].signatures :
                                startswith(file_content.header, sig)}
    IN  append_types(append_types(append_types(<<>>, by_mime), by_extension),
                     by_signature)
\* detected_types of _detect_file_type_from_content: by extension, then by
\* MIME type (skipped when the sniff raises), then by signature
detected_types(file_content, filename) ==
    LET file_ext == lower(Path_suffix(filename))
        by_extension == {ft \in SupportedFileType :
                            file_ext \in SUPPORTED_TYPES[ft].extensions}
        by_mime == {ft \in SupportedFileType :
                       /\ file_content.mime # "raises"
                       /\ file_content.mime \in SUPPORTED_TYPES[ft].mime_types}
        by_signature == {ft \in SupportedFileType :
                            \E sig \in SUPPORTED_TYPES[ft].signatures :
                                startswith(file_content.header, sig)}
    IN  append_types(append_types(append_types(<<>>, by_extension), by_mime),
                     by_signature)

\* _detect_file_type_from_content
_detect_file_type_from_content(file_content, filename, expected_type) ==
    LET file_ext == lower(Path_suffix(filename))
        detected == detected_types(file_content, filename)
        metadata == IF file_content.mime # "raises" THEN {"detected_mime_type"} ELSE {}
        warnings == IF Len(detected) > 1 THEN <<<<"multiple_types", detected>>>> ELSE <<>>
    IN  IF detected = <<>>
        THEN Invalid(None, <<"unsupported_type", file_ext>>)
        ELSE LET final_type == detected[1]
             IN  IF expected_type # None /\ expected_type # final_type
                 THEN Invalid(final_type, <<"type_mismatch", final_type>>)
                 ELSE IF file_content.size > SUPPORTED_TYPES[final_type].max_size
                 THEN Invalid(final_type, <<"size_exceeded", final_type>>)
                 ELSE ValidationResult(TRUE, final_type, NoError, warnings,
                          metadata \cup {"file_type_description", "max_size"})

\* the first of required_files that the archive lacks, None when none
first_missing(required_files, entries) ==
    LET missing == {i \in 1..Len(required_files) : required_files[i] \notin entries}
    IN  IF missing = {} THEN None
        ELSE required_files[CHOOSE i \in missing : \A j \in missing : i <= j]

\* a DOCX validation that asks for [Content_Types].xml only
_validate_docx_content_types_only(file_content, metadata, warnings) ==
    LET missing == first_missing(<<"[Content_Types].xml">>, file_content.zip.entries)
    IN  IF ~file_content.zip.is_zip THEN Invalid("docx", <<"invalid_docx", "BadZipFile">>)
        ELSE IF missing # None THEN Invalid("docx", <<"invalid_docx", missing>>)
        ELSE ValidationResult(TRUE, "docx", NoError, warnings,
                              metadata \cup {"zip_entries", "is_valid_docx"})
_validate_docx_content(file_content, metadata, warnings) ==
    LET missing == first_missing(<<"[Content_Types].xml", "word/document.xml">>,
                                 file_content.zip.entries)
    IN  IF ~file_content.zip.is_zip THEN Invalid("docx", <<"invalid_docx", "BadZipFile">>)
        ELSE IF missing # None THEN Invalid("docx", <<"invalid_docx", missing>>)
        ELSE ValidationResult(TRUE, "docx", NoError, warnings,
                              metadata \cup {"zip_entries", "is_valid_docx"})

_validate_epub_content(file_content, metadata, warnings) ==
    LET missing == first_missing(<<"mimetype", "META-INF/container.xml">>,
                                 file_content.zip.entries)
    IN  IF ~file_content.zip.is_zip THEN Invalid("epub", <<"invalid_epub", "BadZipFile">>)
        ELSE IF missing # None THEN Invalid("epub", <<"invalid_epub", missing>>)
        ELSE ValidationResult(TRUE, "epub", NoError,
                 IF file_content.zip.mimetype # EpubMime
                 THEN Append(warnings, <<"epub_mimetype", file_content.zip.mimetype>>)
                 ELSE warnings,
                 metadata \cup {"zip_entries", "is_valid_epub"})

\* _validate_text_content: UTF-8, then GBK; the NUL character is looked for
\* in the UTF-8 branch only; its result names TXT
_validate_text_content(file_content, metadata, warnings) ==
    IF file_content.decodes \in {"utf-8", "utf-8-nul"}
    THEN ValidationResult(TRUE, "txt", NoError,
             IF file_content.decodes = "utf-8-nul"
             THEN Append(warnings, <<"binary_content", None>>) ELSE warnings,
             metadata \cup {"encoding", "content_length", "has_binary_content"})
    ELSE IF file_content.decodes \in {"gbk", "gbk-nul"}
    THEN ValidationResult(TRUE, "txt", NoError, Append(warnings, <<"gbk_encoding", None>>),
                          metadata \cup {"encoding", "content_length"})
    ELSE Invalid(None, <<"decode_failed", None>>)

_validate_file_content_bytes(file_content, file_type) ==
    IF file_type = "docx" THEN _validate_docx_content(file_content, {"file_hash"}, <<>>)
    ELSE IF file_type = "epub" THEN _validate_epub_content(file_content, {"file_hash"}, <<>>)
    ELSE IF file_type \in {"txt", "md"}
    THEN _validate_text_content(file_content, {"file_hash"}, <<>>)
    ELSE ValidationResult(TRUE, file_type, NoError, <<>>, {"file_hash"})

\* the gates with the type detection ahead of the security check
validate_uploaded_file_type_first(file_content, filename, expected_type) ==
    IF file_content.size = 0 THEN Invalid(None, <<"empty_content", None>>)
    ELSE
    LET basic_check == _basic_uploaded_file_check(file_content, filename)
    IN  IF HasRaised(basic_check)
        THEN Invalid(None, <<"validation_failed", basic_check.raised>>)
        ELSE IF ~basic_check.is_valid THEN basic_check
        ELSE
    LET type_check == _detect_file_type_from_content(file_content, filename, expected_type)
    IN  IF ~type_check.is_valid THEN type_check
        ELSE
    LET security_check == _security_check_content(file_content, filename)
    IN  IF ~security_check.is_valid THEN security_check
        ELSE
    LET content_check == _validate_file_content_bytes(file_content, type_check.file_type)
    IN  IF ~content_check.is_valid THEN content_check
        ELSE ValidationResult(TRUE, type_check.file_type, NoError,
                 basic_check.warnings \o type_check.warnings \o content_check.warnings,
                 basic_check.metadata \cup type_check.metadata \cup content_check.metadata)

\* validate_uploaded_file: the gates in order; an exception of any gate is
\* caught and becomes an invalid result
validate_uploaded_file(file_content, filename, expected_type) ==
    IF file_content.size = 0 THEN Invalid(None, <<"empty_content", None>>)
    ELSE
    LET basic_check == _basic_uploaded_file_check(file_content, filename)
    IN  IF HasRaised(basic_check)
        THEN Invalid(None, <<"validation_failed", basic_check.raised>>)
        ELSE IF ~basic_check.is_valid THEN basic_check
        ELSE
    LET security_check == _security_check_content(file_content, filename)
    IN  IF ~security_check.is_valid THEN security_check
        ELSE
    LET type_check == _detect_file_type_from_content(file_content, filename, expected_type)
    IN  IF ~type_check.is_valid THEN type_check
        ELSE
    LET content_check == _validate_file_content_bytes(file_content, type_check.file_type)
    IN  IF ~content_check.is_valid THEN content_check
        ELSE ValidationResult(TRUE, type_check.file_type, NoError,
                 basic_check.warnings \o type_check.warnings \o content_check.warnings,
                 basic_check.metadata \cup type_check.metadata \cup content_check.metadata)

(***************************************************************************)
(* validate_file: the validation of a file on disk.  The file is given by   *)
(* its bytes and its name; file_path names it in some directory, so         *)
(* os.path.basename(file_path) and the suffix of file_path are those of     *)
(* the name, and libmagic sniffs the same bytes.                            *)
(***************************************************************************)
_basic_file_check(file_content, filename) ==
    IF file_content.size = 0 THEN Invalid(None, <<"empty_file", None>>)
    ELSE IF ~_is_valid_filename(filename) THEN Invalid(None, <<"illegal_filename", None>>)
    ELSE ValidationResult(TRUE, None, NoError, <<>>,
                          {"file_size", "filename", "file_extension"})

_security_check(file_content, filename) ==
    LET file_ext == lower(Path_suffix(filename))
    IN  IF file_ext \in DANGEROUS_EXTENSIONS
        THEN Invalid(None, <<"dangerous_type", file_ext>>)
        ELSE IF file_content.mime # "raises" /\ file_content.mime \in DANGEROUS_MIME_TYPES
        THEN Invalid(None, <<"dangerous_type", file_content.mime>>)
        ELSE ValidationResult(TRUE, None, NoError, <<>>, {})

\* _detect_file_type: the detection of the bytes variant; the size check
\* reads metadata['file_size'] from the method's own metadata dict, which
\* holds detected_mime_type at most: KeyError
_detect_file_type(file_content, filename, expected_type) ==
    LET file_ext == lower(Path_suffix(filename))
        detected == detected_types(file_content, filename)
    IN  IF detected = <<>>
        THEN Invalid(None, <<"unsupported_type", file_ext>>)
        ELSE LET final_type == detected[1]
             IN  IF expected_type # None /\ expected_type # final_type
                 THEN Invalid(final_type, <<"type_mismatch", final_type>>)
                 ELSE Raised("KeyError")

\* _validate_docx_file, _validate_epub_file, _validate_text_file: the
\* statements of the bytes variants over the file opened from file_path
_validate_docx_file(file_content, metadata, warnings) ==
    _validate_docx_content(file_content, metadata, warnings)
_validate_epub_file(file_content, metadata, warnings) ==
    _validate_epub_content(file_content, metadata, warnings)
_validate_text_file(file_content, metadata, warnings) ==
    _validate_text_content(file_content, metadata, warnings)

_validate_file_content(file_content, file_type) ==
    IF file_type = "docx" THEN _validate_docx_file(file_content, {"file_hash"}, <<>>)
    ELSE IF file_type = "epub" THEN _validate_epub_file(file_content, {"file_hash"}, <<>>)
    ELSE IF file_type \in {"txt", "md"}
    THEN _validate_text_file(file_content, {"file_hash"}, <<>>)
    ELSE ValidationResult(TRUE, file_type, NoError, <<>>, {"file_hash"})

\* validate_file on an existing file; os.path.exists(None) raises TypeError;
\* an exception of any gate is caught and becomes an invalid result
validate_file(file_content, filename, expected_type) ==
    IF filename = NoFilename THEN Invalid(None, <<"validation_failed", "TypeError">>)
    ELSE
    LET basic_check == _basic_file_check(file_content, filename)
    IN  IF ~basic_check.is_valid THEN basic_check
        ELSE
    LET security_check == _security_check(file_content, filename)
    IN  IF ~security_check.is_valid THEN security_check
        ELSE
    LET type_check == _detect_file_type(file_content, filename, expected_type)
    IN  IF HasRaised(type_check)
        THEN Invalid(None, <<"validation_failed", type_check.raised>>)
        ELSE IF ~type_check.is_valid THEN type_check
        ELSE
    LET content_check == _validate_file_content(file_content, type_check.file_type)
    IN  IF ~content_check.is_valid THEN content_check
        ELSE ValidationResult(TRUE, type_check.file_type, NoError,
                 basic_check.warnings \o type_check.warnings \o content_check.warnings,
                 basic_check.metadata \cup type_check.metadata \cup content_check.metadata)

(***************************************************************************)
(* Calls of the validator: the arguments are drawn first, then one of the  *)
(* methods is applied to them.                                             *)
(***************************************************************************)
\* the call has not returned
NoResult == [pending |-> TRUE]

ValidatorCalls ==
    [op : {"call"}, file_content : Contents, filename : Filenames,
     expected_type : ExpectedTypes, result : {NoResult}]

InitValidator ==
    /\ projects = [p \in ProjectIds |-> NoProject]
    /\ storage  = [k \in ObjectKeys |-> NoObject]
    /\ tasks    = [t \in TaskIds |-> IdleTask]
    /\ requests = [r \in RequestIds |-> IdleRequest]
    /\ validation \in ValidatorCalls
    /\ analysis = NoAnalysis
    /\ movie = NoMovie

ValidateUploadedFile ==
    /\ validation.op = "call"
    /\ validation' = [validation EXCEPT
            !.op = "validate_uploaded_file",
            !.result = validate_uploaded_file(validation.file_content, validation.filename,
                                              validation.expected_type)]
    /\ UNCHANGED <<projects, storage, tasks, requests, analysis, movie>>

\* the type detection alone, on the arguments that reach it
DetectFileTypeFromContent ==
    /\ validation.op = "call"
    /\ validation.file_content \in DetectionContents
    /\ validation.file_content.size > 0
    /\ validation.filename # NoFilename
    /\ _is_valid_filename(validation.filename)
    /\ _security_check_content(validation.file_content, validation.filename).is_valid
    /\ validation' = [validation EXCEPT
            !.op = "_detect_file_type_from_content",
            !.result = _detect_file_type_from_content(validation.file_content,
                                                      validation.filename,
                                                      validation.expected_type)]
    /\ UNCHANGED <<projects, storage, tasks, requests, analysis, movie>>

\* validate_file on a file that holds the bytes under the name
ValidateFile ==
    /\ validation.op = "call"
    /\ validation' = [validation EXCEPT
            !.op = "validate_file",
            !.result = validate_file(validation.file_content, validation.filename,
                                     validation.expected_type)]
    /\ UNCHANGED <<projects, storage, tasks, requests, analysis, movie>>

NextValidator ==
    \/ ValidateUploadedFile
    \/ DetectFileTypeFromContent
    \/ ValidateFile

SpecValidator == InitValidator /\ [][NextValidator]_vars

(***************************************************************************)
(* Calls of _analyze_file_content (tasks/file_processing.py): the          *)
(* arguments are drawn first, then the function is applied to them.        *)
(***************************************************************************)
\* the longest text analysed
MaxTextLen == 5
\* a letter, a blank, a newline, a sentence terminator
TextAlphabet == {"a", " ", "\n", "."}
AnalyzedTexts == UNION {[1..n -> TextAlphabet] : n \in 0..MaxTextLen}

AnalyzerCalls ==
    [op : {"call"}, content : AnalyzedTexts, file_type : {None} \cup SupportedFileType,
     result : {NoResult}]

InitAnalyzer ==
    /\ projects = [p \in ProjectIds |-> NoProject]
    /\ storage  = [k \in ObjectKeys |-> NoObject]
    /\ tasks    = [t \in TaskIds |-> IdleTask]
    /\ requests = [r \in RequestIds |-> IdleRequest]
    /\ validation = NoValidation
    /\ movie = NoMovie
    /\ analysis \in AnalyzerCalls

AnalyzeFileContent ==
    /\ analysis.op = "call"
    /\ analysis' = [analysis EXCEPT
            !.op = "_analyze_file_content",
            !.result = _analyze_file_content(analysis.content, analysis.file_type)]
    /\ UNCHANGED <<projects, storage, tasks, requests, validation, movie>>

NextAnalyzer == AnalyzeFileContent

SpecAnalyzer == InitAnalyzer /\ [][NextAnalyzer]_vars

(***************************************************************************)
(* SceneService.extract_scenes_from_chapter (services/scene_service.py).   *)
(* One call is one action: the session is the call's own, and nothing of   *)
(* it is persisted before its first commit.  movie.scripts holds the       *)
(* committed MovieScript rows, each with the number of its committed       *)
(* MovieScene rows.                                                        *)
(***************************************************************************)
\* the scripts the model lets be committed, the scenes of one LLM response
MaxScripts == 3
MaxScenes == 2

\* where the call raises: before the script is created (steps 1 to 4), in
\* on_progress(0.2), in the LLM call or the parsing of its response, in
\* on_progress(0.6), at a scene item, in on_progress(0.9), in the commit,
\* in on_progress(1.0)
FailurePoints ==
    {"none", "before_script", "progress_0.2", "response", "progress_0.6",
     "scene_item", "progress_0.9", "commit", "progress_1.0"}

\* the MovieScene objects added to the session when the try block is left:
\* none before the loop, those before the failing item, all of them after
scenes_added(fails_at, scenes, failing_item) ==
    IF fails_at \in {"progress_0.2", "response", "progress_0.6"} THEN 0
    ELSE IF fails_at = "scene_item" THEN failing_item - 1
    ELSE scenes

\* self.db_session.commit(): the script row as the session holds it and
\* every MovieScene added to the session become persistent together
commit(status, scenes) == [status |-> status, scenes |-> scenes]

\* scenes: the items of the response; failing_item: the item whose handling
\* raises; handler_commit_raises: the commit of the except branch raises
\* too (after a failed commit the session may refuse further work)
extract_scenes_from_chapter(fails_at, scenes, failing_item, handler_commit_raises) ==
    /\ Len(movie.scripts) < MaxScripts
    /\ fails_at = "scene_item" => failing_item \in 1..scenes
    /\ fails_at # "scene_item" => failing_item = 0
    /\ handler_commit_raises => fails_at = "commit"
    /\ movie' =
          IF fails_at = "before_script"
          THEN [movie EXCEPT !.created = FALSE, !.persisted = 0, !.outcome = "raised"]
          ELSE IF fails_at = "none"
          THEN [scripts   |-> Append(movie.scripts, commit("completed", scenes)),
                created   |-> TRUE,
                persisted |-> Len(movie.scripts) + 1,
                outcome   |-> "returned"]
          ELSE IF handler_commit_raises
          THEN [movie EXCEPT !.created = TRUE, !.persisted = 0, !.outcome = "raised"]
          ELSE [scripts   |-> Append(movie.scripts,
                                     commit("failed",
                                            scenes_added(fails_at, scenes, failing_item))),
                created   |-> TRUE,
                persisted |-> Len(movie.scripts) + 1,
                outcome   |-> "raised"]
    /\ UNCHANGED <<projects, storage, tasks, requests, validation, analysis>>

NextScene ==
    \E fails_at \in FailurePoints, scenes \in 0..MaxScenes,
       failing_item \in 0..MaxScenes, handler_commit_raises \in BOOLEAN :
        extract_scenes_from_chapter(fails_at, scenes, failing_item, handler_commit_raises)

SpecScene == Init /\ [][NextScene]_vars

(***************************************************************************)
(* Properties.                                                             *)
(***************************************************************************)

\* C1. Every write of file_processing_status by create_project,
\* start_file_processing, the Celery task, the upload API's pipeline, the
\* /process endpoint and update_processing_status moves a record along
\* pending -> uploading -> uploaded -> processing -> {completed, failed} or
\* along failed -> processing; a completed record never leaves completed.
C1_StatusChain ==
    [][LET Chain == {<<"pending", "uploading">>, <<"uploading", "uploaded">>,
                     <<"uploaded", "processing">>, <<"processing", "completed">>,
                     <<"processing", "failed">>, <<"failed", "processing">>}
           Writers ==
               \/ \E u \in Users, fi \in {None, "file_info"}, si \in {None, "storage_info"} :
                     create_project(u, fi, si)
               \/ \E p \in ProjectIds, u \in Users, fp \in {None, "/tmp/upload"},
                      dr \in BOOLEAN : start_file_processing(p, u, fp, dr)
               \/ \E r \in RequestIds : StartFileProcessingUpdate(r)
               \/ \E t \in TaskIds : TaskBegin(t)
               \/ \E t \in TaskIds, exc \in FetchErrors : TaskFetchFails(t, exc)
               \/ \E t \in TaskIds : TaskFetchReturns(t)
               \/ \E p \in ProjectIds, u \in Users, dr \in BOOLEAN :
                     process_project_file(p, u, dr)
               \/ \E r \in RequestIds, rr \in BOOLEAN : ProcessUploadedFileFinish(r, rr)
               \/ \E p \in ProjectIds, call \in StatusInputs :
                     update_processing_status(p, call[1], call[2], call[3])
       IN  Writers =>
             \A p \in ProjectIds :
               (/\ projects[p] # NoProject
                /\ projects'[p] # NoProject
                /\ projects'[p].file_processing_status # projects[p].file_processing_status)
               => <<projects[p].file_processing_status,
                    projects'[p].file_processing_status>> \in Chain]_vars

\* C2. When an attempt of the Celery task or a run of the upload API's
\* pipeline raises after the transition to processing, it ends with the
\* record in file_processing_status = failed and processing_error equal to
\* the exception's message, also on the attempt that exhausts the retries.
C2_FailureRecorded ==
    [][/\ \A t \in TaskIds :
            (/\ tasks[t].state = "running"
             /\ tasks'[t].state # "running"
             /\ projects'[tasks[t].project_id] # NoProject)
            => /\ projects'[tasks[t].project_id].file_processing_status = "failed"
               /\ projects'[tasks[t].project_id].processing_error = tasks'[t].message
       /\ \A r \in RequestIds, rr \in BOOLEAN :
            (/\ ProcessUploadedFileFinish(r, rr)
             /\ projects'[requests[r].project_id] # NoProject)
            => /\ projects'[requests[r].project_id].file_processing_status = "failed"
               /\ projects'[requests[r].project_id].processing_error =
                      (IF rr THEN ReadErrorMsg ELSE MissingUserIdMsg)]_vars

\* C3. A run of the Celery task or of the upload API's pipeline whose
\* content is read and analyzed without a failing collaborator ends with
\* file_processing_status = completed, processing_progress = 100 and
\* processing_error cleared.
C3_RunCompletes ==
    [][/\ \A t \in TaskIds :
            (TaskFetchReturns(t) /\ projects'[tasks[t].project_id] # NoProject)
            => /\ projects'[tasks[t].project_id].file_processing_status = "completed"
               /\ projects'[tasks[t].project_id].processing_progress = 100
               /\ projects'[tasks[t].project_id].processing_error = None
       /\ \A r \in RequestIds :
            (ProcessUploadedFileFinish(r, FALSE) /\ projects'[requests[r].project_id] # NoProject)
            => /\ projects'[requests[r].project_id].file_processing_status = "completed"
               /\ projects'[requests[r].project_id].processing_progress = 100
               /\ projects'[requests[r].project_id].processing_error = None]_vars

\* C4. For every record at most one processing invocation is in flight:
\* dispatched or running Celery tasks and running pipeline requests for the
\* same record never number more than one.
C4_OneInFlight ==
    \A p \in ProjectIds :
        Cardinality({t \in TaskIds : /\ tasks[t].project_id = p
                                     /\ tasks[t].state \in {"queued", "running"}})
        + Cardinality({r \in RequestIds : /\ requests[r].project_id = p
                                          /\ requests[r].op = "process_project_file"})
        <= 1

\* C5. The Celery task re-schedules itself only for a FileProcessingError
\* or a StorageError and only while fewer than 3 retries were made, with a
\* countdown of 60 * (retries + 1); otherwise it returns a result with
\* success = false, so a chain makes at most 4 attempts (3 retries).
C5_RetryPolicy ==
    \A t \in TaskIds :
        /\ tasks[t].retries \in 0..3
        /\ tasks[t].countdown = 60 * tasks[t].retries
        /\ (tasks[t].retries > 0 /\ tasks[t].state \in {"queued", "running"})
           => tasks[t].exc \in {"FileProcessingError", "StorageError"}
        /\ tasks[t].state = "done"
           => /\ tasks[t].success = "False"
              /\ tasks[t].exc \in {"FileProcessingError", "StorageError"}
                 => tasks[t].retries = 3

\* a chain that was re-scheduled three times for a StorageError and
\* returned its result on the fourth attempt
C5_Witness ==
    \E t \in TaskIds :
        /\ tasks[t].state = "done"
        /\ tasks[t].exc = "StorageError"
        /\ tasks[t].retries = 3
        /\ tasks[t].countdown = 180

\* C6. start_file_processing by the owner of a non-deleted record
\* dispatches a task whenever can_be_processed allows the record's
\* file_processing_status: for failed as it does for uploaded.
C6_FailedCanBeReprocessed ==
    \A p \in ProjectIds, u \in Users :
        LET row == get_project_by_id(p, u)
        IN  (/\ row # NoProject
             /\ row.status \in {"draft", "failed"}
             /\ row.file_type \in SupportedFileType
             /\ row.file_processing_status \in CanBeProcessedStatuses
             /\ FreeTasks # {}
             /\ FreeRequests # {})
            => ENABLED (start_file_processing(p, u, None, FALSE) /\ tasks' # tasks)

\* C7. A run of the pipeline that started on a completed record and read
\* its unchanged content leaves the record as the run before it did:
\* completed with progress 100, and, for the Celery task, with the counts
\* of the analyzer for that content.
C7_RerunIdempotent ==
    [][/\ \A r \in RequestIds :
            LET p == requests[r].project_id
            IN  (/\ ProcessUploadedFileFinish(r, FALSE)
                 /\ requests[r].rerun
                 /\ projects'[p] # NoProject)
                => /\ projects'[p].file_processing_status = "completed"
                   /\ projects'[p].processing_progress = 100
       /\ \A t \in TaskIds :
            LET p == tasks[t].project_id
            IN  (/\ TaskFetchReturns(t)
                 /\ tasks[t].rerun
                 /\ tasks[t].file_path = None)
                => LET a == _analyze_file_content(storage[projects[p].minio_object_key],
                                                  projects[p].file_type)
                   IN  /\ projects'[p].file_processing_status = "completed"
                       /\ projects'[p].processing_progress = 100
                       /\ <<projects'[p].word_count, projects'[p].total_paragraphs,
                             projects'[p].total_sentences, projects'[p].total_chapters>>
                          = <<a.word_count, a.paragraph_count,
                              a.sentence_count, a.chapter_count>>]_vars

C9_ProgressClamped ==
    \A p \in ProjectIds :
        projects[p] # NoProject
        => (0 <= projects[p].processing_progress /\ projects[p].processing_progress <= 100)

\* C10. In every reachable state a record whose file_processing_status is
\* failed has status failed.
C10_FailedTogether ==
    \A p \in ProjectIds :
        (projects[p] # NoProject /\ projects[p].file_processing_status = "failed")
        => projects[p].status = "failed"

\* C11. A record on which delete_project(permanent=False) succeeded is
\* returned by none of get_project_by_id, get_user_projects,
\* search_projects and get_project_statistics, and stays so until
\* restore_project by its owner succeeds, which makes it returned again
\* with is_deleted = false; restore_project on a record that is not
\* soft-deleted changes nothing.
C11_SoftDeleteHides ==
    [][\A p \in ProjectIds :
          LET Listed ==
                  \E u \in Users :
                      \/ get_project_by_id(p, u) # NoProject
                      \/ get_project_by_id(p, None) # NoProject
                      \/ p \in get_user_projects(u, None)
                      \/ \E f \in SearchFilters : p \in search_projects(u, f)
                      \/ get_project_statistics(u).total_projects # 0
          IN  /\ \A u \in Users, sc \in BOOLEAN :
                   (delete_project(p, u, FALSE, sc) /\ get_project_by_id(p, u) # NoProject)
                   => (projects'[p] # NoProject /\ ~Listed')
              /\ (projects[p] # NoProject /\ ~Listed /\ Listed')
                 => \E u \in Users :
                       /\ restore_project(p, u)
                       /\ projects[p].user_id = u
                       /\ projects'[p].is_deleted = FALSE
              /\ \A u \in Users :
                   (restore_project(p, u) /\ projects[p] # NoProject
                    /\ projects[p].user_id = u /\ projects[p].is_deleted)
                   => (Listed' /\ projects'[p].is_deleted = FALSE)
              /\ \A u \in Users :
                   (projects[p] = NoProject \/ ~projects[p].is_deleted)
                   => ~ENABLED (restore_project(p, u) /\ vars' # vars)]_vars

\* a soft-deleted record that was processed before and is listed for nobody
C11_Witness ==
    \E p \in ProjectIds :
        /\ projects[p] # NoProject
        /\ projects[p].is_deleted
        /\ projects[p].file_processing_status = "completed"
        /\ get_user_projects(projects[p].user_id, None) = {}

\* C12. delete_project(permanent=True) by the owner of an existing record
\* with a stored object, soft-deleted or not, leaves neither the record in
\* the table nor its object in the store.
C12_PermanentDeleteRemovesAll ==
    \A p \in ProjectIds :
        (/\ projects[p] # NoProject
         /\ projects[p].minio_object_key # None
         /\ storage[projects[p].minio_object_key] # NoObject)
        => \A sc \in BOOLEAN :
              ENABLED (/\ delete_project(p, projects[p].user_id, TRUE, sc)
                       /\ projects'[p] = NoProject
                       /\ storage'[projects[p].minio_object_key] = NoObject)

\* C13. ProjectService.create_project, with or without file_info and
\* storage_info, leaves a new record with status = draft,
\* file_processing_status = pending and the given owner.
C13_CreateProjectCreates ==
    \A u \in Users, fi \in {None, "file_info"}, si \in {None, "storage_info"} :
        (\E p \in ProjectIds : projects[p] = NoProject)
        => ENABLED (/\ create_project(u, fi, si)
                    /\ \E p \in ProjectIds :
                          /\ projects[p] = NoProject
                          /\ projects'[p] # NoProject
                          /\ projects'[p].user_id = u
                          /\ projects'[p].status = "draft"
                          /\ projects'[p].file_processing_status = "pending")

\* C14. get_project_by_id, update_project, delete_project and
\* restore_project called with user id U return, modify or delete a
\* project only if its user_id is U: a call made with U leaves every
\* project of another user, and its object, unchanged and never returns it.
C14_OwnerScoped ==
    [][\A p \in ProjectIds, u \in Users :
          /\ get_project_by_id(p, u) # NoProject => get_project_by_id(p, u).user_id = u
          /\ (/\ projects[p] # NoProject
              /\ projects[p].user_id # u
              /\ \/ \E up \in UpdateInputs : update_project(p, u, up)
                 \/ \E pm \in BOOLEAN, sc \in BOOLEAN : delete_project(p, u, pm, sc)
                 \/ restore_project(p, u))
             => /\ projects'[p] = projects[p]
                /\ storage' = storage
          /\ (projects[p] # NoProject /\ projects[p].user_id # u)
             => /\ \A up \in UpdateInputs : ~ENABLED (update_project(p, u, up) /\ vars' # vars)
                /\ \A pm \in BOOLEAN, sc \in BOOLEAN :
                      ~ENABLED (delete_project(p, u, pm, sc) /\ vars' # vars)
                /\ ~ENABLED (restore_project(p, u) /\ vars' # vars)]_vars

\* a record of u2 with its file fields set and its object stored, visible
\* to u2 and not to u1
C14_Witness ==
    \E p \in ProjectIds :
        /\ projects[p] # NoProject
        /\ projects[p].user_id = "u2"
        /\ projects[p].minio_object_key # None
        /\ storage[projects[p].minio_object_key] # NoObject
        /\ get_project_by_id(p, "u2") # NoProject
        /\ get_project_by_id(p, "u1") = NoProject

\* the call of validate_uploaded_file has returned
Validated == validation.op = "validate_uploaded_file"
\* the call of _detect_file_type_from_content has returned
Detected == validation.op = "_detect_file_type_from_content"

\* C15: every call of validate_uploaded_file returns a ValidationResult, no
\* exception leaves it; a valid result has a file_type and no error_message,
\* an invalid result has an error_message.
C15_ResultWellFormed ==
    Validated =>
        LET result == validation.result
        IN  /\ ~HasRaised(result)
            /\ DOMAIN result = {"is_valid", "file_type", "error_message", "warnings", "metadata"}
            /\ result.is_valid \in BOOLEAN
            /\ result.is_valid =>
                    /\ result.file_type \in SupportedFileType
                    /\ result.error_message = NoError
            /\ ~result.is_valid => Len(result.error_message) > 0

\* C15 happens: a call without a file name, whose TypeError is caught, has
\* returned an invalid result.
C15_Witness ==
    /\ Validated
    /\ validation.filename = NoFilename
    /\ validation.file_content.size > 0
    /\ ~validation.result.is_valid
    /\ validation.result.error_message[1] = "validation_failed"

\* C16: validate_uploaded_file reports the error of the first gate that the
\* input violates, in the order non-empty, filename, security denylist,
\* classification (no candidate, expected type, maximum size), structural
\* validation; a result that reports an error carries no warning and no
\* metadata; the gates are restated here from the input alone.
C16_GateOrder ==
    Validated /\ validation.filename # NoFilename =>
        LET file_content == validation.file_content
            filename   == validation.filename
            result     == validation.result
            file_ext   == lower(Path_suffix(filename))
            candidates == detected_types(file_content, filename)
            dangerous  == \/ file_ext \in DANGEROUS_EXTENSIONS
                          \/ file_content.mime \in DANGEROUS_MIME_TYPES
            mismatch   == /\ validation.expected_type # None
                          /\ validation.expected_type # candidates[1]
            too_large  == file_content.size > SUPPORTED_TYPES[candidates[1]].max_size
            structure  == _validate_file_content_bytes(file_content, candidates[1])
            first == IF file_content.size = 0 THEN {"empty_content"}
                     ELSE IF ~_is_valid_filename(filename) THEN {"illegal_filename"}
                     ELSE IF dangerous THEN {"dangerous_type"}
                     ELSE IF candidates = <<>> THEN {"unsupported_type"}
                     ELSE IF mismatch THEN {"type_mismatch"}
                     ELSE IF too_large THEN {"size_exceeded"}
                     ELSE IF ~structure.is_valid
                     THEN {"invalid_docx", "invalid_epub", "decode_failed"}
                     ELSE {}
        IN  /\ first = {} => result.is_valid
            /\ first # {} =>
                    /\ ~result.is_valid
                    /\ result.error_message[1] \in first
                    /\ result.warnings = <<>>
                    /\ result.metadata = {}

\* C16 happens: an upload with a dangerous extension, of another type than
\* the expected one and larger than its type allows, is reported as dangerous.
C16_Witness ==
    /\ Validated
    /\ validation.filename = <<"d", "o", "c", ".", "e", "x", "e">>
    /\ validation.expected_type = "md"
    /\ validation.file_content.size > SUPPORTED_TYPES["txt"].max_size
    /\ detected_types(validation.file_content, validation.filename) = <<"txt">>
    /\ validation.file_content.decodes = "none"
    /\ validation.result.error_message[1] = "dangerous_type"

\* C17: for non-empty content and a legal file name, a dangerous extension,
\* in whatever case it is written, or a dangerous sniffed MIME type makes
\* validate_uploaded_file return an invalid result with the dangerous-type
\* error, whatever the content, the other signal and the expected type are.
C17_DangerousRejected ==
    Validated =>
        LET file_content == validation.file_content
            filename == validation.filename
            result   == validation.result
        IN  /\ file_content.size > 0
            /\ filename # NoFilename
            /\ _is_valid_filename(filename)
            /\ \/ lower(Path_suffix(filename)) \in DANGEROUS_EXTENSIONS
               \/ file_content.mime \in DANGEROUS_MIME_TYPES
            => /\ ~result.is_valid
               /\ result.error_message[1] = "dangerous_type"

\* C17 happens: doc.EXE with text content of another MIME type is rejected
\* as dangerous.
C17_Witness ==
    /\ Validated
    /\ validation.filename = <<"d", "o", "c", ".", "E", "X", "E">>
    /\ validation.file_content.mime = "text/plain"
    /\ validation.file_content.decodes = "utf-8"
    /\ ~validation.result.is_valid
    /\ validation.result.error_message[1] = "dangerous_type"

\* the extension, the sniffed MIME type and the first bytes of the upload
\* all name file_type
signals_agree(file_content, filename, file_type) ==
    /\ lower(Path_suffix(filename)) \in SUPPORTED_TYPES[file_type].extensions
    /\ file_content.mime \in SUPPORTED_TYPES[file_type].mime_types
    /\ \E sig \in SUPPORTED_TYPES[file_type].signatures :
            startswith(file_content.header, sig)

\* C18: when the extension, the sniffed MIME type and the signature of an
\* upload agree on a supported type K, _detect_file_type_from_content detects
\* K and no other type, and its result carries no multiple-types warning.
C18_AgreeingSignalsOneCandidate ==
    Detected =>
        \A K \in SupportedFileType :
            signals_agree(validation.file_content, validation.filename, K) =>
                /\ detected_types(validation.file_content, validation.filename) = <<K>>
                /\ validation.result.warnings = <<>>

\* the supported types that one signal of the upload names: its extension,
\* its sniffed MIME type, its first bytes
types_by_extension(file_content, filename) ==
    {ft \in SupportedFileType :
        lower(Path_suffix(filename)) \in SUPPORTED_TYPES[ft].extensions}
types_by_mime(file_content, filename) ==
    {ft \in SupportedFileType : file_content.mime \in SUPPORTED_TYPES[ft].mime_types}
types_by_signature(file_content, filename) ==
    {ft \in SupportedFileType :
        \E sig \in SUPPORTED_TYPES[ft].signatures : startswith(file_content.header, sig)}
candidate_types(file_content, filename) ==
    types_by_extension(file_content, filename)
        \cup types_by_mime(file_content, filename)
        \cup types_by_signature(file_content, filename)
\* the place of a type in the enumeration TXT, MD, DOCX, EPUB
enumeration_index(file_type) == CHOOSE i \in 1..Len(TypeOrder) : TypeOrder[i] = file_type
\* the result carries the multiple-types warning that lists all of candidates
warns_of(result, candidates) ==
    \E i \in 1..Len(result.warnings) :
        /\ result.warnings[i][1] = "multiple_types"
        /\ {result.warnings[i][2][j] : j \in 1..Len(result.warnings[i][2])} = candidates

\* C19 as stated: with more than one candidate, the file_type of the
\* classification's result is the candidate that comes first in the
\* enumeration TXT, MD, DOCX, EPUB, whichever signal detected it, and a
\* warning of the result lists all candidates.
C19_FirstInEnumerationOrder ==
    Detected =>
        LET candidates == candidate_types(validation.file_content, validation.filename)
            first == CHOOSE ft \in candidates :
                        \A other \in candidates :
                            enumeration_index(ft) <= enumeration_index(other)
        IN  Cardinality(candidates) > 1 =>
                /\ validation.result.file_type = first
                /\ warns_of(validation.result, candidates)

\* C19 amended: with more than one candidate, the file_type of the
\* classification's result is the first candidate in detection order: the
\* types named by the extension come before those named by the MIME type,
\* those before the types named by the signature, and within one signal the
\* enumeration TXT, MD, DOCX, EPUB decides; when the classification accepts
\* the upload, a warning of the result lists all candidates.
C19_FirstInDetectionOrder ==
    Detected =>
        LET file_content == validation.file_content
            filename == validation.filename
            candidates == candidate_types(file_content, filename)
            signal(ft) == IF ft \in types_by_extension(file_content, filename) THEN 1
                          ELSE IF ft \in types_by_mime(file_content, filename) THEN 2
                          ELSE 3
            before(ft, other) ==
                \/ signal(ft) < signal(other)
                \/ /\ signal(ft) = signal(other)
                   /\ enumeration_index(ft) <= enumeration_index(other)
            first == CHOOSE ft \in candidates : \A other \in candidates : before(ft, other)
        IN  Cardinality(candidates) > 1 =>
                /\ validation.result.file_type = first
                /\ validation.result.is_valid => warns_of(validation.result, candidates)

\* C19 happens: doc.md sniffed as text/plain has the candidates MD (by
\* extension) and TXT (by MIME type); the classification has chosen MD and
\* warned of both.
C19_Witness ==
    /\ Detected
    /\ validation.filename = <<"d", "o", "c", ".", "m", "d">>
    /\ validation.file_content.mime = "text/plain"
    /\ validation.result.is_valid
    /\ validation.result.file_type = "md"
    /\ warns_of(validation.result, {"md", "txt"})

\* the last characters of filename are .md
ends_in_md(filename) ==
    /\ Len(filename) >= 3
    /\ SubSeq(filename, Len(filename) - 2, Len(filename)) = <<".", "m", "d">>

\* the upload of C20: non-empty, a legal name, text that decodes as UTF-8,
\* sniffed as text/plain or text/markdown, no expected type or MD
md_upload(call) ==
    /\ call.file_content.size > 0
    /\ call.filename # NoFilename
    /\ _is_valid_filename(call.filename)
    /\ call.file_content.decodes \in {"utf-8", "utf-8-nul"}
    /\ call.file_content.mime \in {"text/plain", "text/markdown"}
    /\ call.expected_type \in {None, "md"}

\* C20 as stated: every such upload whose name ends in .md is accepted by
\* validate_uploaded_file with file_type MD.
C20_MarkdownAccepted ==
    Validated /\ md_upload(validation) /\ ends_in_md(validation.filename) =>
        /\ validation.result.is_valid
        /\ validation.result.file_type = "md"

\* C20 amended: every such upload whose name is a non-empty stem followed by
\* .md and whose size is at most the max_size of MD is accepted by
\* validate_uploaded_file with file_type MD.
C20_SmallMarkdownAccepted ==
    /\ Validated
    /\ md_upload(validation)
    /\ ends_in_md(validation.filename)
    /\ Len(validation.filename) > 3
    /\ validation.file_content.size <= SUPPORTED_TYPES["md"].max_size
    => /\ validation.result.is_valid
       /\ validation.result.file_type = "md"

\* C20 happens: doc.md, a few bytes of UTF-8 text sniffed as text/plain, no
\* expected type, has been accepted as MD.
C20_Witness ==
    /\ Validated
    /\ md_upload(validation)
    /\ validation.filename = <<"d", "o", "c", ".", "m", "d">>
    /\ validation.file_content.mime = "text/plain"
    /\ validation.expected_type = None
    /\ validation.file_content.size <= SUPPORTED_TYPES["md"].max_size
    /\ validation.result.is_valid
    /\ validation.result.file_type = "md"

\* C21: a non-empty upload with a legal name, nothing dangerous about it,
\* whose extension names no supported type and whose sniffed MIME type names
\* none either, is rejected by validate_uploaded_file with the
\* unsupported-type error.
C21_UnsupportedRejected ==
    Validated =>
        LET file_content == validation.file_content
            filename == validation.filename
            result   == validation.result
        IN  /\ file_content.size > 0
            /\ filename # NoFilename
            /\ _is_valid_filename(filename)
            /\ lower(Path_suffix(filename)) \notin DANGEROUS_EXTENSIONS
            /\ file_content.mime \notin DANGEROUS_MIME_TYPES \cup {"raises"}
            /\ types_by_extension(file_content, filename) = {}
            /\ types_by_mime(file_content, filename) = {}
            => /\ ~result.is_valid
               /\ result.error_message[1] = "unsupported_type"

\* the upload of C22: a ZIP archive without word/document.xml under a name
\* with the extension .docx
docx_without_document(call) ==
    /\ call.file_content.size > 0
    /\ call.filename # NoFilename
    /\ lower(Path_suffix(call.filename)) = <<".", "d", "o", "c", "x">>
    /\ call.file_content.zip.is_zip
    /\ "word/document.xml" \notin call.file_content.zip.entries

\* an accepted DOCX is a ZIP archive with both required entries
valid_docx_is_complete(call) ==
    call.result.is_valid /\ call.result.file_type = "docx" =>
        /\ call.file_content.zip.is_zip
        /\ {"[Content_Types].xml", "word/document.xml"} \subseteq call.file_content.zip.entries

\* C22 as stated: validate_uploaded_file accepts a DOCX only if it is a ZIP
\* archive holding [Content_Types].xml and word/document.xml, and every ZIP
\* archive without word/document.xml named .docx is rejected with the error
\* that names word/document.xml as the missing file.
C22_DocxNeedsDocument ==
    Validated =>
        /\ valid_docx_is_complete(validation)
        /\ docx_without_document(validation) =>
                /\ ~validation.result.is_valid
                /\ validation.result.error_message[1] = "invalid_docx"
                /\ validation.result.error_message[2] = "word/document.xml"

\* C22 amended: validate_uploaded_file accepts a DOCX only if it is a ZIP
\* archive holding both entries; every ZIP archive without word/document.xml
\* named .docx is rejected, and when it passes the security and
\* classification gates the error names the first missing required file:
\* [Content_Types].xml when that is missing too, word/document.xml otherwise.
C22_DocxNeedsRequiredFiles ==
    Validated =>
        /\ valid_docx_is_complete(validation)
        /\ docx_without_document(validation) =>
                /\ ~validation.result.is_valid
                /\ /\ _is_valid_filename(validation.filename)
                   /\ validation.file_content.mime \notin DANGEROUS_MIME_TYPES
                   /\ validation.expected_type \in {None, "docx"}
                   /\ validation.file_content.size <= SUPPORTED_TYPES["docx"].max_size
                   => /\ validation.result.error_message[1] = "invalid_docx"
                      /\ validation.result.error_message[2] =
                            IF "[Content_Types].xml" \in validation.file_content.zip.entries
                            THEN "word/document.xml" ELSE "[Content_Types].xml"

\* C22 happens: doc.docx, a ZIP archive that holds [Content_Types].xml and
\* no word/document.xml, has been rejected for the missing word/document.xml.
C22_Witness ==
    /\ Validated
    /\ docx_without_document(validation)
    /\ validation.file_content.zip.entries = {"[Content_Types].xml"}
    /\ validation.file_content.mime = DocxMime
    /\ ~validation.result.is_valid
    /\ validation.result.error_message = <<"invalid_docx", "word/document.xml">>

\* the upload reaches the text validation: it passes the gates up to the
\* classification, which resolves it as TXT or MD
resolved_as_text(call) ==
    /\ call.file_content.size > 0
    /\ call.filename # NoFilename
    /\ _is_valid_filename(call.filename)
    /\ _security_check_content(call.file_content, call.filename).is_valid
    /\ LET type_check == _detect_file_type_from_content(call.file_content, call.filename,
                                                          call.expected_type)
       IN  type_check.is_valid /\ type_check.file_type \in {"txt", "md"}
\* the result carries the warning of this kind
has_warning(result, kind) ==
    \E i \in 1..Len(result.warnings) : result.warnings[i][1] = kind

\* C23: for content resolved as TXT or MD, validate_uploaded_file accepts
\* what decodes as UTF-8 or, failing that, as GBK; a NUL character in the
\* decoded text gives the binary-content warning, the GBK fallback gives the
\* GBK warning as well, and content that decodes as neither is invalid.
C23_TextWarnings ==
    Validated /\ resolved_as_text(validation) =>
        LET decodes == validation.file_content.decodes
            result  == validation.result
        IN  /\ decodes # "none" => result.is_valid
            /\ decodes \in {"utf-8-nul", "gbk-nul"} => has_warning(result, "binary_content")
            /\ decodes \in {"gbk", "gbk-nul"} => has_warning(result, "gbk_encoding")
            /\ decodes = "none" => ~result.is_valid

\* C24: a file name that holds one of the illegal characters, or is longer
\* than 255 characters, or whose stem is a reserved device name in whatever
\* case, makes validate_uploaded_file return an invalid result, whatever the
\* content and the expected type are.
C24_IllegalFilenameRejected ==
    Validated /\ validation.filename # NoFilename =>
        LET filename == validation.filename
        IN  \/ \E i \in 1..Len(filename) :
                  filename[i] \in {"<", ">", ":", "\"", "|", "?", "*", "\\x00"}
            \/ Len(filename) > 255
            \/ upper(Path_stem(filename)) \in ReservedNames
            => ~validation.result.is_valid

\* C24 happens: con.txt with text that would pass every other gate has been
\* rejected for its name.
C24_Witness ==
    /\ Validated
    /\ validation.filename = <<"c", "o", "n", ".", "t", "x", "t">>
    /\ validation.file_content.size = 10
    /\ validation.file_content.mime = "text/plain"
    /\ validation.file_content.decodes = "utf-8"
    /\ validation.expected_type = None
    /\ ~validation.result.is_valid
    /\ validation.result.error_message[1] = "illegal_filename"

\* the call of _analyze_file_content has returned
Analyzed == analysis.op = "_analyze_file_content"

\* the paragraphs of a text, counted without splitting it: the characters
\* that are not whitespace and have, between them and the nearest such
\* character before them, two consecutive newlines (or nothing before them)
paragraph_starts(t) ==
    {i \in 1..Len(t) :
        /\ t[i] \notin Whitespace
        /\ \A j \in 1..(i - 1) :
                t[j] \notin Whitespace =>
                    \E k \in (j + 1)..(i - 2) : t[k] = "\n" /\ t[k + 1] = "\n"}

\* C25: for every text _analyze_file_content returns its counts, and
\* paragraph_count is the number of segments between blank lines (two
\* consecutive newlines) that are not empty after trimming; the empty text
\* has all counts zero.
C25_ParagraphCount ==
    Analyzed =>
        LET result == analysis.result
        IN  /\ DOMAIN result = {"word_count", "paragraph_count", "sentence_count",
                                "chapter_count", "character_count"}
            /\ result.paragraph_count = Cardinality(paragraph_starts(analysis.content))
            /\ analysis.content = <<>> =>
                    \A count \in DOMAIN result : result[count] = 0

\* C25 happens: the text of two paragraphs with a blank line between and a
\* newline after them has been analysed and counts two paragraphs.
C25_Witness ==
    /\ Analyzed
    /\ analysis.content = <<"a", "\n", "\n", "a", "\n">>
    /\ analysis.result.paragraph_count = 2

\* C26: when a processing invocation has finished (the Celery task returned
\* its result or gave up after its retries, the upload API's pipeline
\* returned), the record is completed or failed, never left in processing,
\* also when the invocation ended in its failure handler.
C26_FinishedNotProcessing ==
    [][/\ \A t \in TaskIds :
            (/\ tasks[t].state = "running"
             /\ tasks'[t].state = "done"
             /\ projects'[tasks[t].project_id] # NoProject)
            => projects'[tasks[t].project_id].file_processing_status
                   \in {"completed", "failed"}
       /\ \A r \in RequestIds, rr \in BOOLEAN :
            (/\ ProcessUploadedFileFinish(r, rr)
             /\ projects'[requests[r].project_id] # NoProject)
            => projects'[requests[r].project_id].file_processing_status
                   \in {"completed", "failed"}]_vars

\* C27: every failure path leaves processing_progress as the last
\* checkpoint (a value from 0 to 100) wrote it: the Celery task's error
\* handler, the upload API pipeline's error handler, the dispatch-failure
\* handler of start_file_processing and Project.mark_as_failed.
C27_FailureKeepsProgress ==
    [][\A p \in ProjectIds :
          (/\ projects[p] # NoProject
           /\ projects'[p] # NoProject
           /\ projects[p].processing_progress \in 0..100
           /\ \/ \E t \in TaskIds :
                     /\ tasks[t].project_id = p
                     /\ tasks[t].state = "running"
                     /\ tasks'[t].state # "running"
              \/ \E r \in RequestIds, rr \in BOOLEAN :
                     requests[r].project_id = p /\ ProcessUploadedFileFinish(r, rr)
              \/ \E u \in Users, fp \in {None, "/tmp/upload"} :
                     start_file_processing(p, u, fp, TRUE)
              \/ MarkAsFailed(p, ManualErrorMsg))
          => projects'[p].processing_progress = projects[p].processing_progress]_vars

\* C28: between the dispatch of a task by start_file_processing and the end
\* of that task, no write of start_file_processing or of the task lowers
\* the record's processing_progress, and the write of start_file_processing
\* after the dispatch does not replace a terminal status (one that the task
\* wrote, not the record of another call's failed dispatch).
C28_ProgressMonotoneInRace ==
    [][\A p \in ProjectIds :
          (/\ projects[p] # NoProject
           /\ projects'[p] # NoProject
           /\ \E t \in TaskIds : /\ tasks[t].project_id = p
                                  /\ tasks[t].state \in {"queued", "running"}
           /\ \/ \E r \in RequestIds :
                     requests[r].project_id = p /\ StartFileProcessingUpdate(r)
              \/ \E t \in TaskIds : tasks[t].project_id = p /\ TaskBegin(t)
              \/ \E t \in TaskIds, exc \in FetchErrors :
                     tasks[t].project_id = p /\ TaskFetchFails(t, exc)
              \/ \E t \in TaskIds : tasks[t].project_id = p /\ TaskFetchReturns(t))
          => /\ projects'[p].processing_progress >= projects[p].processing_progress
             /\ (/\ projects[p].file_processing_status \in {"completed", "failed"}
                 /\ projects[p].processing_error # DispatchErrorMsg)
                    => projects'[p].file_processing_status
                           = projects[p].file_processing_status]_vars

\* C29: for the same bytes, name and expected type, validate_file and
\* validate_uploaded_file return the same is_valid and the same file_type;
\* what validate_uploaded_file accepts, validate_file accepts.
C29_PathAndBytesAgree ==
    validation.op = "validate_file" /\ validation.filename # NoFilename =>
        LET uploaded == validate_uploaded_file(validation.file_content, validation.filename,
                                               validation.expected_type)
        IN  /\ validation.result.is_valid = uploaded.is_valid
            /\ validation.result.file_type = uploaded.file_type

\* C30: after a call of extract_scenes_from_chapter that created a script,
\* the persisted MovieScript is COMPLETED when the call returned and FAILED
\* when it raised, and no persisted script in status FAILED has persisted
\* MovieScene rows.
C30_ScriptStatusAndScenes ==
    /\ movie.created =>
            /\ movie.persisted # 0
            /\ movie.outcome = "returned" =>
                    movie.scripts[movie.persisted].status = "completed"
            /\ movie.outcome = "raised" =>
                    movie.scripts[movie.persisted].status = "failed"
    /\ \A i \in 1..Len(movie.scripts) :
            movie.scripts[i].status = "failed" => movie.scripts[i].scenes = 0

====
